---- MODULE Spec2Model ----
(***************************************************************************)
(* Model of the document storage layer of ceilaosystem_backend.            *)
(*                                                                         *)
(* The repository holds three revisions of the class BlobStorageService:   *)
(*   storage_ts : src/src/services/storage.ts  (remote only)               *)
(*   part_000   : src/unnamed/part_000         (remote OR local, by mode)  *)
(*   part_004   : src/unnamed/part_004         (local backup + remote)     *)
(* The variable rev fixes the revision a behaviour runs.  Every await of   *)
(* the TypeScript code is a step boundary: a handler issues a call, and    *)
(* each request to the remote store is answered in a step of its own.      *)
(***************************************************************************)
EXTENDS Naturals, Integers, Sequences, FiniteSets, TLC

VARIABLES
  rev,               \* revision of BlobStorageService in use
  isLocalStorage,    \* BlobStorageService.isLocalStorage
  blobServiceClient, \* TRUE iff BlobStorageService.blobServiceClient is not null
  connTestPending,   \* the constructor's un-awaited testConnection() has not answered yet
  containerExists,   \* the remote container exists
  blobs,             \* remote store: path -> [content, ctype]
  files,             \* local filesystem: <<directory, path>> -> content
  budget,            \* per handler: calls it may still issue
  pc,                \* per handler: where it is suspended
  call,              \* per handler: arguments and locals of the running call
  ret,               \* per handler: outcome of its last completed call
  remoteEverOk,      \* history: some request to the remote store has been answered
  plan,              \* calculateConcurrency: the file sizes of two uploads and the results
  codec,             \* a path being built from its three components and split again
  token,             \* an access token: its issue, and a request that presents a token
  mig                \* a migration request: its batch and the position of its loop

\* the storage service, its two stores and its callers
storevars == <<rev, isLocalStorage, blobServiceClient, connTestPending, containerExists,
               blobs, files, budget, pc, call, ret, remoteEverOk>>

\* the state of the functions and routes around the storage service
auxvars == <<plan, codec, token, mig>>

vars == <<storevars, auxvars>>

----------------------------------------------------------------------------
(* Input domains *)

Handlers == {"h1", "h2"}
\* calls a lone handler issues, one after the other
MaxCalls == 3
\* calls each of two concurrent handlers issues
MaxRaceCalls == 2
Revisions == {"storage_ts", "part_000", "part_004"}

Clients == {"c1"}
DocTypes == {"nic_proof"}
FileNames == {"a.pdf", "b.bin"}
Paths == Clients \X DocTypes \X FileNames
NoPath == <<"", "", "">>

\* payloads handed to uploadFile: fileContent and contentType
Docs == {[content |-> "b1", ctype |-> "application/pdf"],
         [content |-> "b2", ctype |-> "image/png"]}
NoBlob == [content |-> "", ctype |-> ""]
\* content of a file that is on the local disk before the service starts
LegacyContent == "b0"
LegacyPath == <<"c1", "nic_proof", "a.pdf">>
NoFile == ""

\* values of new Date().valueOf() in milliseconds
Times == {0, 5000}
\* the optional argument expirySeconds
TtlInputs == {[given |-> FALSE, secs |-> 0], [given |-> TRUE, secs |-> 0],
              [given |-> TRUE, secs |-> 60]}

----------------------------------------------------------------------------
(* Paths, locations *)

\* `${clientId}/${documentType}/${fileName}`
blobPath(clientId, documentType, fileName) == <<clientId, documentType, fileName>>

localStoragePath == "uploads"
WorkspaceUploads == "/workspace/uploads"
LocalDirs == {localStoragePath, WorkspaceUploads}

\* the directories a revision looks into for local files (storage.ts writes and reads
\* none, but ./uploads is where the earlier revisions left theirs)
LocalBackendDirs(r) == IF r = "part_004" THEN LocalDirs ELSE {localStoragePath}

\* path.join('./uploads', ...) and path.join('uploads', ...) normalise to the same file
localPaths(p) == << <<localStoragePath, p>>, <<"uploads", p>>, <<WorkspaceUploads, p>> >>

NoUrl == [kind |-> "none", host |-> "", dir |-> "", path |-> NoPath, perm |-> "", expiresOn |-> 0]

\* host of the storage account of the connection string
AccountHost == "account.blob.core.windows.net"
\* blockBlobClient.url
BlobUrl(p) == [kind |-> "http", host |-> AccountHost, dir |-> "", path |-> p, perm |-> "", expiresOn |-> 0]
\* `${baseUrl}/${this.containerName}/${blobPath}` of the local fallback
baseUrl == "insurancedocuments.blob.core.windows.net"

\* variant: the fallback location is the local path (as part_000 returns in local mode)
FallbackUrl_local(p) == [kind |-> "local", host |-> "", dir |-> localStoragePath, path |-> p, perm |-> "", expiresOn |-> 0]

\* "Return a URL format that matches Azure for consistency"
FallbackUrl(p) == [kind |-> "http", host |-> baseUrl, dir |-> "", path |-> p, perm |-> "", expiresOn |-> 0]

\* a path on the local disk, as returned by path.join
LocalRef(d, p) == [kind |-> "local", host |-> "", dir |-> d, path |-> p, perm |-> "", expiresOn |-> 0]

DefaultExpirySeconds == 900
MsPerSecond == 1000

\* variant: the credential also allows to write and to delete
generateSasUrl_rwd(p, now, expirySeconds) ==
  [kind |-> "http", host |-> AccountHost, dir |-> "", path |-> p, perm |-> "rwd",
   expiresOn |-> now + expirySeconds * MsPerSecond]

\* variant: the default of the older generateSasUrl(), 60 minutes
expirySecondsOf_hour(ttl) == IF ttl.given THEN ttl.secs ELSE 60 * 60

\* expirySeconds: number = 900
expirySecondsOf(ttl) == IF ttl.given THEN ttl.secs ELSE DefaultExpirySeconds

\* secureUrl.startsWith('http'): how the readers tell a remote location from a local one
startsWithHttp(url) == url.kind = "http"

\* blobClient.generateSasUrl({expiresOn, permissions: parse("r"), ...})
generateSasUrl(p, now, expirySeconds) ==
  [kind |-> "http", host |-> AccountHost, dir |-> "", path |-> p, perm |-> "r",
   expiresOn |-> now + expirySeconds * MsPerSecond]

----------------------------------------------------------------------------
(* Records *)

NoTtl == [given |-> FALSE, secs |-> 0]

\* arguments and locals of a running call
\*   local      : outcome of the local write of uploadFile ("none" = not attempted)
\*   heldRemote, heldLocal : what the two stores held under path when deleteFile was called
\*   pred       : outcome of this handler's previous call if that was a deleteFile of the
\*                same path, issued while a store held the object, with every request answered
\*   predDoc    : payload of this handler's previous call if that was an uploadFile of the
\*                same path that returned; predLocal : the outcome of its local write
\*   firstDoc   : (of a read) payload of the uploadFile of the same path that returned
\*                just before the one in predDoc
\*   fault      : a request of this call to the remote store went unanswered
NoCall == [op |-> "none", path |-> NoPath, doc |-> NoBlob, ttl |-> NoTtl,
           local |-> "none", heldRemote |-> FALSE, heldLocal |-> FALSE,
           pred |-> "none", predDoc |-> NoBlob, predLocal |-> "none", firstDoc |-> NoBlob,
           fault |-> FALSE, url |-> NoUrl, issuedAt |-> 0]

\* outcome of a completed call
\*   ok         : the call returned (FALSE = it threw)
\*   remote     : outcome of the remote write or existence check ("none" = not attempted)
\*   deleted    : the value deleteFile returned
\*   status, served : HTTP status, and content and content type sent, of a route
\*   sasUrl     : the URL in the body of the response of the route /url
NoRet == [op |-> "none", path |-> NoPath, ok |-> FALSE, url |-> NoUrl,
          remote |-> "none", local |-> "none", doc |-> NoBlob,
          deleted |-> FALSE, removedRemote |-> FALSE, removedLocal |-> FALSE,
          heldRemote |-> FALSE, heldLocal |-> FALSE, pred |-> "none", predDoc |-> NoBlob,
          predLocal |-> "none", firstDoc |-> NoBlob, fault |-> FALSE, ttl |-> NoTtl,
          issuedAt |-> 0, status |-> 0, served |-> NoBlob, sasUrl |-> NoUrl]

Finish(h, r) ==
  /\ pc' = [pc EXCEPT ![h] = "idle"]
  /\ call' = [call EXCEPT ![h] = NoCall]
  /\ ret' = [ret EXCEPT ![h] = r]

\* a handler that is idle and may still issue a call issues one
Idle(h) == pc[h] = "idle" /\ budget[h] > 0
Spend(h) == [budget EXCEPT ![h] = @ - 1]

Suspend(h, at, c) ==
  /\ pc' = [pc EXCEPT ![h] = at]
  /\ call' = [call EXCEPT ![h] = c]
  /\ ret' = [ret EXCEPT ![h] = NoRet]

NewCall(opname, p) == [NoCall EXCEPT !.op = opname, !.path = p]

RetOf(c) == [NoRet EXCEPT !.op = c.op, !.path = c.path, !.doc = c.doc, !.ttl = c.ttl,
                          !.local = c.local, !.heldRemote = c.heldRemote,
                          !.heldLocal = c.heldLocal, !.pred = c.pred,
                          !.predDoc = c.predDoc, !.predLocal = c.predLocal,
                          !.firstDoc = c.firstDoc, !.fault = c.fault]

\* handler h's previous call was an uploadFile of path p that returned
PutBefore(h, p) == ret[h].op = "uploadFile" /\ ret[h].ok /\ ret[h].path = p

\* the call uploadFile(p, doc); predDoc remembers the uploadFile that returned just
\* before; pred = "racing" when the call is made while another handler's uploadFile is
\* between its awaits
PutCall(h, p, doc) ==
  [NewCall("uploadFile", p) EXCEPT
     !.doc = doc, !.predDoc = IF PutBefore(h, p) THEN ret[h].doc ELSE NoBlob,
     !.pred = IF \E g \in Handlers \ {h} : pc[g] \in {"uf_ensure", "uf_upload"}
                THEN "racing" ELSE "none"]

----------------------------------------------------------------------------
(* The remote store (Azure Blob Storage SDK) and the local disk *)

\* containerClient.createIfNotExists(): one request; the SDK swallows the 409
\* ContainerAlreadyExists answer.  reach = the request was answered.
createIfNotExists(reach, exists) == [ok |-> reach, exists |-> exists \/ reach]

\* containerClient.create(): the 409 answer is thrown
create(reach, exists) == [ok |-> reach /\ ~exists, exists |-> exists \/ reach]

\* blockBlobClient.upload(fileContent, length, {blobHTTPHeaders: {blobContentType}})
upload(store, p, doc) == [store EXCEPT ![p] = [content |-> doc.content, ctype |-> doc.ctype]]

\* variant: the write is reported but nothing reaches the disk
writeFileSync_lost(disk, p, content) == disk

\* fs.writeFileSync(path.join(localStoragePath, clientId, documentType, fileName), fileContent)
writeFileSync(disk, p, content) == [disk EXCEPT ![<<localStoragePath, p>>] = content]

existsSync(disk, f) == disk[f] # NoFile
unlinkSync(disk, f) == [disk EXCEPT ![f] = NoFile]

\* index of the first entry of localPaths(p) that exists on the disk, 0 if none
firstExisting(disk, p) ==
  LET hits == {i \in DOMAIN localPaths(p) : existsSync(disk, localPaths(p)[i])}
  IN IF hits = {} THEN 0 ELSE CHOOSE i \in hits : \A j \in hits : i <= j

\* fs.readdirSync(path.dirname(localPath)): the files of the directory of p under d
readdirSync(disk, d, p) ==
  {q \in Paths : q[1] = p[1] /\ q[2] = p[2] /\ existsSync(disk, <<d, q>>)}

----------------------------------------------------------------------------
(* ensureContainer *)

ensureContainer_ts_create(reach, exists, localMode) ==
  LET r == create(reach, exists)
  IN [threw |-> ~r.ok, exists |-> r.exists, localMode |-> localMode]

\* storage.ts: try { await containerClient.createIfNotExists() } catch { throw }
ensureContainer_ts(reach, exists, localMode) ==
  LET r == createIfNotExists(reach, exists)
  IN [threw |-> ~r.ok, exists |-> r.exists, localMode |-> localMode]

\* part_000: as storage.ts once the mode and the client have been checked
ensureContainer_000(reach, exists, localMode) ==
  LET r == createIfNotExists(reach, exists)
  IN [threw |-> ~r.ok, exists |-> r.exists, localMode |-> localMode]

\* part_004: the catch block switches the service to local storage and rethrows
ensureContainer_004(reach, exists, localMode) ==
  LET r == createIfNotExists(reach, exists)
  IN [threw |-> ~r.ok, exists |-> r.exists, localMode |-> IF r.ok THEN localMode ELSE TRUE]

ensureContainerOf(r, reach, exists, localMode) ==
  CASE r = "storage_ts" -> ensureContainer_ts(reach, exists, localMode)
    [] r = "part_000" -> ensureContainer_000(reach, exists, localMode)
    [] r = "part_004" -> ensureContainer_004(reach, exists, localMode)

\* the synchronous head of ensureContainer: TRUE iff it goes on to the request
ensureContainerReaches(r) ==
  CASE r = "storage_ts" -> blobServiceClient
    [] r = "part_000" -> ~isLocalStorage /\ blobServiceClient
    [] r = "part_004" -> ~(isLocalStorage \/ ~blobServiceClient)

\* another handler is between sending createIfNotExists() and its answer
EnsureInFlight(h) == \E g \in Handlers \ {h} : pc[g] \in {"ec_create", "uf_ensure"}

\* a caller invokes ensureContainer() on its own; pred = "racing" when the call is made
\* while another handler's is in flight
EnsureContainerCall(h) ==
  /\ Idle(h)
  /\ budget' = Spend(h)
  /\ IF ensureContainerReaches(rev)
       THEN Suspend(h, "ec_create",
                    [NoCall EXCEPT !.op = "ensureContainer",
                                   !.pred = IF EnsureInFlight(h) THEN "racing" ELSE "none"])
       ELSE Finish(h, [NoRet EXCEPT !.op = "ensureContainer",
                                    \* storage.ts throws without a client, the others return
                                    !.ok = (rev # "storage_ts")])
  /\ UNCHANGED <<rev, isLocalStorage, blobServiceClient, connTestPending,
                 containerExists, blobs, files, remoteEverOk>>
  /\ UNCHANGED auxvars

EnsureContainerReply(h) ==
  /\ pc[h] = "ec_create"
  /\ \E reach \in BOOLEAN :
       LET r == ensureContainerOf(rev, reach, containerExists, isLocalStorage)
       IN /\ containerExists' = r.exists
          /\ isLocalStorage' = r.localMode
          /\ remoteEverOk' = (remoteEverOk \/ reach)
          /\ Finish(h, [RetOf(call[h]) EXCEPT !.ok = ~r.threw,
                                              !.remote = IF reach THEN "ok" ELSE "fail",
                                              !.fault = ~reach])
  /\ UNCHANGED <<rev, budget, blobServiceClient, connTestPending, blobs, files>>
  /\ UNCHANGED auxvars

----------------------------------------------------------------------------
(* uploadFile *)

\* variant: storage.ts keeps the local backup of part_004
uploadFile_ts_call_backup(h, p, doc) ==
  LET c == [PutCall(h, p, doc) EXCEPT !.local = "ok"]
  IN /\ IF ~blobServiceClient
            THEN Finish(h, [RetOf(c) EXCEPT !.ok = FALSE])
            ELSE Suspend(h, "uf_ensure", c)
     /\ files' = writeFileSync(files, p, doc.content)

\* storage.ts: uploadFile(p, doc) up to its first await
uploadFile_ts_call(h, p, doc) ==
  LET c == PutCall(h, p, doc)
  IN /\ IF ~blobServiceClient
            THEN Finish(h, [RetOf(c) EXCEPT !.ok = FALSE])
            ELSE Suspend(h, "uf_ensure", c)
     /\ UNCHANGED files

\* storage.ts: remote only
uploadFile_ts(h) ==
  /\ Idle(h)
  /\ budget' = Spend(h)
  /\ rev = "storage_ts"
  /\ \E p \in Paths, doc \in Docs : uploadFile_ts_call(h, p, doc)
  /\ UNCHANGED <<rev, isLocalStorage, blobServiceClient, connTestPending,
                 containerExists, blobs, remoteEverOk>>
  /\ UNCHANGED auxvars

\* part_000: uploadFile(p, doc) up to its first await; wrote = the local write succeeds
uploadFile_000_call(h, p, doc, wrote) ==
  LET c == PutCall(h, p, doc)
  IN IF isLocalStorage
       THEN /\ files' = IF wrote THEN writeFileSync(files, p, doc.content) ELSE files
            /\ Finish(h, [RetOf(c) EXCEPT !.ok = wrote,
                                          !.local = IF wrote THEN "ok" ELSE "fail",
                                          !.url = IF wrote THEN LocalRef(localStoragePath, p)
                                                           ELSE NoUrl])
       ELSE /\ wrote
            /\ UNCHANGED <<files>>
            /\ IF blobServiceClient
                 THEN Suspend(h, "uf_ensure", c)
                 \* ensureContainer() skips the request, then uploadFile throws
                 ELSE Finish(h, [RetOf(c) EXCEPT !.ok = FALSE])

\* part_000: local storage in local mode, the remote store otherwise
uploadFile_000(h) ==
  /\ Idle(h)
  /\ budget' = Spend(h)
  /\ rev = "part_000"
  /\ \E p \in Paths, doc \in Docs, wrote \in BOOLEAN : uploadFile_000_call(h, p, doc, wrote)
  /\ UNCHANGED <<rev, isLocalStorage, blobServiceClient, connTestPending,
                 containerExists, blobs, remoteEverOk>>
  /\ UNCHANGED auxvars

\* part_004: uploadFile(p, doc) up to its first await; wrote = the local write succeeds
uploadFile_004_call(h, p, doc, wrote) ==
  LET c == [PutCall(h, p, doc) EXCEPT !.local = IF wrote THEN "ok" ELSE "fail"]
  IN /\ files' = IF wrote THEN writeFileSync(files, p, doc.content) ELSE files
     /\ IF isLocalStorage \/ ~blobServiceClient
          THEN /\ Finish(h, [RetOf(c) EXCEPT !.ok = TRUE, !.url = FallbackUrl(p)])
          ELSE /\ Suspend(h, "uf_ensure", c)

\* part_004: always the local backup first, then the remote store unless in local mode
uploadFile_004(h) ==
  /\ Idle(h)
  /\ budget' = Spend(h)
  /\ rev = "part_004"
  /\ \E p \in Paths, doc \in Docs, wrote \in BOOLEAN : uploadFile_004_call(h, p, doc, wrote)
  /\ UNCHANGED <<rev, isLocalStorage, blobServiceClient, connTestPending,
                 containerExists, blobs, remoteEverOk>>
  /\ UNCHANGED auxvars

\* variant: every revision throws when the remote store failed the upload
uploadFile_failed_throws(r, c) ==
  [RetOf(c) EXCEPT !.ok = FALSE, !.remote = "fail", !.fault = TRUE]

\* how uploadFile ends when the remote store failed it
uploadFile_failed(r, c) ==
  IF r = "part_004"
    \* part_004 catches and returns the fallback location
    THEN [RetOf(c) EXCEPT !.ok = TRUE, !.url = FallbackUrl(c.path), !.remote = "fail", !.fault = TRUE]
    \* storage.ts, part_000: throw new Error('Failed to upload file ...')
    ELSE [RetOf(c) EXCEPT !.ok = FALSE, !.remote = "fail", !.fault = TRUE]

\* await this.ensureContainer() inside uploadFile
uploadFile_ensureContainer(h) ==
  /\ pc[h] = "uf_ensure"
  /\ \E reach \in BOOLEAN :
       LET r == ensureContainerOf(rev, reach, containerExists, isLocalStorage)
       IN /\ containerExists' = r.exists
          /\ isLocalStorage' = r.localMode
          /\ remoteEverOk' = (remoteEverOk \/ reach)
          /\ IF r.threw
               THEN /\ Finish(h, uploadFile_failed(rev, call[h]))
               ELSE /\ Suspend(h, "uf_upload", call[h])
  /\ UNCHANGED <<rev, budget, blobServiceClient, connTestPending, blobs, files>>
  /\ UNCHANGED auxvars

\* variant: the upload goes through a buffer shared by the calls in flight, so that a
\* call that overlaps another one may write the other's bytes
uploadFile_upload_shared(h) ==
  /\ pc[h] = "uf_upload"
  /\ \E reach \in BOOLEAN, g \in Handlers :
       /\ g = h \/ pc[g] \in {"uf_ensure", "uf_upload"} \/ ret[g].op = "uploadFile"
       /\ remoteEverOk' = (remoteEverOk \/ reach)
       /\ IF reach
            THEN /\ blobs' = upload(blobs, call[h].path,
                                    IF g = h THEN call[h].doc
                                    ELSE IF pc[g] = "idle" THEN ret[g].doc ELSE call[g].doc)
                 /\ Finish(h, [RetOf(call[h]) EXCEPT !.ok = TRUE, !.remote = "ok",
                                                     !.url = BlobUrl(call[h].path)])
            ELSE /\ UNCHANGED blobs
                 /\ Finish(h, uploadFile_failed(rev, call[h]))
  /\ UNCHANGED <<rev, budget, isLocalStorage, blobServiceClient, connTestPending,
                 containerExists, files>>
  /\ UNCHANGED auxvars

\* await blockBlobClient.upload(...) inside uploadFile
uploadFile_upload(h) ==
  /\ pc[h] = "uf_upload"
  /\ \E reach \in BOOLEAN :
       /\ remoteEverOk' = (remoteEverOk \/ reach)
       /\ IF reach
            THEN /\ blobs' = upload(blobs, call[h].path, call[h].doc)
                 /\ Finish(h, [RetOf(call[h]) EXCEPT !.ok = TRUE, !.remote = "ok",
                                                     !.url = BlobUrl(call[h].path)])
            ELSE /\ UNCHANGED blobs
                 /\ Finish(h, uploadFile_failed(rev, call[h]))
  /\ UNCHANGED <<rev, budget, isLocalStorage, blobServiceClient, connTestPending,
                 containerExists, files>>
  /\ UNCHANGED auxvars

----------------------------------------------------------------------------
(* generateSecureUrl *)

\* the outcome of generateSecureUrl: ok = it returned url, remote = the existence check
GsuResult(ok, url, remote) == [ok |-> ok, url |-> url, remote |-> remote]
GsuThrow(remote) == GsuResult(FALSE, NoUrl, remote)

\* the three candidate local paths, tried in order
localLookup(disk, p, remote) ==
  LET i == firstExisting(disk, p)
  IN IF i = 0 THEN GsuThrow(remote)
              ELSE GsuResult(TRUE, LocalRef(localPaths(p)[i][1], p), remote)

\* storage.ts, after await blobClient.exists()
generateSecureUrl_ts_exists(reach, store, disk, p, now, secs) ==
  IF ~reach THEN GsuThrow("fail")
  ELSE IF store[p] = NoBlob THEN GsuThrow("ok")
  ELSE GsuResult(TRUE, generateSasUrl(p, now, secs), "ok")

\* variant: part_000 without the look at the local disk
generateSecureUrl_000_exists_remote(reach, store, disk, p, now, secs) ==
  IF ~reach THEN GsuThrow("fail")
  ELSE GsuResult(TRUE, generateSasUrl(p, now, secs), "ok")

\* part_000, after await blobClient.exists(): a missing blob that is not on the local
\* disk either falls through to the SAS generation
generateSecureUrl_000_exists(reach, store, disk, p, now, secs) ==
  IF ~reach THEN GsuThrow("fail")
  ELSE IF store[p] = NoBlob /\ existsSync(disk, <<localStoragePath, p>>)
         THEN GsuResult(TRUE, LocalRef(localStoragePath, p), "ok")
  ELSE GsuResult(TRUE, generateSasUrl(p, now, secs), "ok")

\* part_004, after await blobClient.exists(): a missing blob and a failed request both
\* end in the local lookup
generateSecureUrl_004_exists(reach, store, disk, p, now, secs) ==
  IF ~reach THEN localLookup(disk, p, "fail")
  ELSE IF store[p] = NoBlob THEN localLookup(disk, p, "ok")
  ELSE GsuResult(TRUE, generateSasUrl(p, now, secs), "ok")

\* part_000 in local mode
generateSecureUrl_000_local(disk, p) ==
  IF existsSync(disk, <<localStoragePath, p>>)
    THEN GsuResult(TRUE, LocalRef(localStoragePath, p), "none")
    ELSE GsuThrow("none")

\* part_004 in local mode: the exact file, else any file of the same directory
\* ("using similar file"); readdirSync gives no order, so every file is a possible files[0]
generateSecureUrl_004_local(disk, p) ==
  LET i == firstExisting(disk, p)
      dirs == {j \in DOMAIN localPaths(p) : readdirSync(disk, localPaths(p)[j][1], p) # {}}
      d == localPaths(p)[CHOOSE j \in dirs : \A k \in dirs : j <= k][1]
  IN IF i # 0 THEN {GsuResult(TRUE, LocalRef(localPaths(p)[i][1], p), "none")}
     ELSE IF dirs = {} THEN {GsuThrow("none")}
     ELSE {GsuResult(TRUE, LocalRef(d, q), "none") : q \in readdirSync(disk, d, p)}

\* 15 * 60 seconds, the ttl the secure route asks for
SecureRouteExpiry == [given |-> TRUE, secs |-> 15 * 60]

\* path.extname(url).toLowerCase() of the file names in use
extname(fileName) ==
  CASE fileName = "a.pdf" -> ".pdf"
    [] fileName = "b.bin" -> ".bin"
    [] OTHER -> ""

\* the secure route's content type of a local file
contentTypeOf(ext) ==
  CASE ext = ".pdf" -> "application/pdf"
    [] ext = ".png" -> "image/png"
    [] ext = ".jpg" -> "image/jpeg"
    [] ext = ".jpeg" -> "image/jpeg"
    [] ext = ".gif" -> "image/gif"
    [] OTHER -> "application/octet-stream"

StatusOk == 200
StatusNotFound == 404
StatusError == 500

\* what happens once generateSecureUrl has its outcome res: the plain call returns
\* it; the route /:clientId/:documentType/url answers with it as sasUrl; the route
\* /secure/:clientId/:documentType/:filename goes on to serve the file
GsuDone(h, c, res, now) ==
  IF c.op = "generateSecureUrl"
    THEN Finish(h, [RetOf(c) EXCEPT !.ok = res.ok, !.url = res.url, !.remote = res.remote,
                                    !.fault = (res.remote = "fail"), !.issuedAt = now])
  ELSE IF c.op = "url"
    THEN Finish(h, [RetOf(c) EXCEPT
            !.ok = TRUE, !.url = res.url, !.remote = res.remote,
            !.fault = (res.remote = "fail"), !.issuedAt = now,
            !.status = IF res.ok THEN StatusOk ELSE StatusError,
            !.sasUrl = res.url])
  ELSE IF ~res.ok
    THEN Finish(h, [RetOf(c) EXCEPT !.ok = TRUE, !.remote = res.remote,
                                    !.fault = (res.remote = "fail"), !.status = StatusError])
  ELSE IF res.url.kind = "local"
    THEN Finish(h, [RetOf(c) EXCEPT
            !.ok = TRUE, !.url = res.url, !.remote = res.remote,
            !.fault = (res.remote = "fail"),
            !.status = IF existsSync(files, <<res.url.dir, res.url.path>>)
                         THEN StatusOk ELSE StatusNotFound,
            !.served = IF existsSync(files, <<res.url.dir, res.url.path>>)
                         THEN [content |-> files[<<res.url.dir, res.url.path>>],
                               ctype |-> contentTypeOf(extname(res.url.path[3]))]
                         ELSE NoBlob])
  ELSE Suspend(h, "sec_fetch", [c EXCEPT !.url = res.url, !.issuedAt = now])

\* the caller: generateSecureUrl itself, the route /url (which takes fileName from the
\* last segment of its blobUrl and asks for the default ttl), or the route /secure
GsuCalls(h, p) ==
  LET put == PutBefore(h, p)
      c == [NewCall("generateSecureUrl", p) EXCEPT
              !.predDoc = IF put THEN ret[h].doc ELSE NoBlob,
              !.predLocal = IF put THEN ret[h].local ELSE "none",
              !.firstDoc = IF put THEN ret[h].predDoc ELSE NoBlob]
  IN {[c EXCEPT !.ttl = t] : t \in TtlInputs}
       \cup {[c EXCEPT !.op = "secure", !.ttl = SecureRouteExpiry]}
       \cup {[c EXCEPT !.op = "url", !.ttl = NoTtl]}

generateSecureUrl_ts(h) ==
  /\ Idle(h)
  /\ budget' = Spend(h)
  /\ rev = "storage_ts"
  /\ \E p \in Paths : \E c \in GsuCalls(h, p) :
       IF ~blobServiceClient THEN GsuDone(h, c, GsuThrow("none"), 0)
                             ELSE Suspend(h, "gsu_exists", c)
  /\ UNCHANGED <<rev, isLocalStorage, blobServiceClient, connTestPending,
                 containerExists, blobs, files, remoteEverOk>>
  /\ UNCHANGED auxvars

generateSecureUrl_000(h) ==
  /\ Idle(h)
  /\ budget' = Spend(h)
  /\ rev = "part_000"
  /\ \E p \in Paths : \E c \in GsuCalls(h, p) :
       IF isLocalStorage THEN GsuDone(h, c, generateSecureUrl_000_local(files, p), 0)
       ELSE IF ~blobServiceClient THEN GsuDone(h, c, GsuThrow("none"), 0)
       ELSE Suspend(h, "gsu_exists", c)
  /\ UNCHANGED <<rev, isLocalStorage, blobServiceClient, connTestPending,
                 containerExists, blobs, files, remoteEverOk>>
  /\ UNCHANGED auxvars

generateSecureUrl_004(h) ==
  /\ Idle(h)
  /\ budget' = Spend(h)
  /\ rev = "part_004"
  /\ \E p \in Paths : \E c \in GsuCalls(h, p) :
       IF isLocalStorage \/ ~blobServiceClient
         THEN \E res \in generateSecureUrl_004_local(files, p) : GsuDone(h, c, res, 0)
         ELSE Suspend(h, "gsu_exists", c)
  /\ UNCHANGED <<rev, isLocalStorage, blobServiceClient, connTestPending,
                 containerExists, blobs, files, remoteEverOk>>
  /\ UNCHANGED auxvars

generateSecureUrlOf(r, reach, store, disk, p, now, secs) ==
  CASE r = "storage_ts" -> generateSecureUrl_ts_exists(reach, store, disk, p, now, secs)
    [] r = "part_000" -> generateSecureUrl_000_exists(reach, store, disk, p, now, secs)
    [] r = "part_004" -> generateSecureUrl_004_exists(reach, store, disk, p, now, secs)

\* await blobClient.exists() is answered (or not) and generateSecureUrl runs to its end
generateSecureUrl_exists(h) ==
  /\ pc[h] = "gsu_exists"
  /\ \E reach \in BOOLEAN, now \in Times :
       /\ remoteEverOk' = (remoteEverOk \/ reach)
       /\ GsuDone(h, call[h],
                  generateSecureUrlOf(rev, reach, blobs, files, call[h].path, now,
                                      expirySecondsOf(call[h].ttl)),
                  now)
  /\ UNCHANGED <<rev, budget, isLocalStorage, blobServiceClient, connTestPending,
                 containerExists, blobs, files>>
  /\ UNCHANGED auxvars

\* variant: the secure route sends the signed URL along with its answer
secure_fetch_redirect(h) ==
  /\ pc[h] = "sec_fetch"
  /\ \E reach \in BOOLEAN :
       LET c == call[h]
           b == blobs[c.url.path]
       IN /\ remoteEverOk' = (remoteEverOk \/ reach)
          /\ Finish(h, [RetOf(c) EXCEPT
                !.ok = TRUE, !.url = c.url, !.remote = "ok", !.issuedAt = c.issuedAt,
                !.fault = ~reach, !.sasUrl = c.url,
                !.status = IF ~reach THEN StatusError
                           ELSE IF b = NoBlob \/ c.url.perm # "r" THEN StatusNotFound
                           ELSE StatusOk,
                !.served = IF reach /\ b # NoBlob /\ c.url.perm = "r" THEN b ELSE NoBlob])
  /\ UNCHANGED <<rev, budget, isLocalStorage, blobServiceClient, connTestPending,
                 containerExists, blobs, files>>
  /\ UNCHANGED auxvars

\* the secure route: await fetch(url) of the signed URL, then send the bytes
secure_fetch(h) ==
  /\ pc[h] = "sec_fetch"
  /\ \E reach \in BOOLEAN :
       LET c == call[h]
           b == blobs[c.url.path]
       IN /\ remoteEverOk' = (remoteEverOk \/ reach)
          /\ Finish(h, [RetOf(c) EXCEPT
                !.ok = TRUE, !.url = c.url, !.remote = "ok", !.issuedAt = c.issuedAt,
                !.fault = ~reach,
                !.status = IF ~reach THEN StatusError
                           ELSE IF b = NoBlob \/ c.url.perm # "r" THEN StatusNotFound
                           ELSE StatusOk,
                !.served = IF reach /\ b # NoBlob /\ c.url.perm = "r" THEN b ELSE NoBlob])
  /\ UNCHANGED <<rev, budget, isLocalStorage, blobServiceClient, connTestPending,
                 containerExists, blobs, files>>
  /\ UNCHANGED auxvars

----------------------------------------------------------------------------
(* deleteFile *)

\* a step of deleteFile: goto = "delete" (go on to blobClient.delete()), "return" or
\* "throw"; disk = the local disk afterwards; result = the value returned
DelStep(goto, disk, result) == [goto |-> goto, disk |-> disk, result |-> result]

\* part_004: "Always try to delete local file too": the first candidate that exists;
\* returns deletedFromAzure || deletedFromLocal
deleteLocal_004(disk, p, deletedFromAzure) ==
  LET i == firstExisting(disk, p)
  IN IF i = 0 THEN DelStep("return", disk, deletedFromAzure)
              ELSE DelStep("return", unlinkSync(disk, localPaths(p)[i]), TRUE)

\* storage.ts, after await blobClient.exists()
deleteFile_ts_exists(reach, held, disk, p) ==
  IF ~reach THEN DelStep("throw", disk, FALSE)
  ELSE IF held THEN DelStep("delete", disk, FALSE)
  ELSE DelStep("return", disk, FALSE)

\* part_000, after await blockBlobClient.exists(): the local file only if the blob is missing
deleteFile_000_exists(reach, held, disk, p) ==
  IF ~reach THEN DelStep("throw", disk, FALSE)
  ELSE IF held THEN DelStep("delete", disk, FALSE)
  ELSE IF existsSync(disk, <<localStoragePath, p>>)
         THEN DelStep("return", unlinkSync(disk, <<localStoragePath, p>>), TRUE)
  ELSE DelStep("return", disk, FALSE)

\* part_004, after await blobClient.exists(): a failed request is logged and skipped
deleteFile_004_exists(reach, held, disk, p) ==
  IF reach /\ held THEN DelStep("delete", disk, FALSE)
  ELSE deleteLocal_004(disk, p, FALSE)

deleteFile_existsOf(r, reach, held, disk, p) ==
  CASE r = "storage_ts" -> deleteFile_ts_exists(reach, held, disk, p)
    [] r = "part_000" -> deleteFile_000_exists(reach, held, disk, p)
    [] r = "part_004" -> deleteFile_004_exists(reach, held, disk, p)

\* variant: the outcome of blobClient.delete() is not looked at
deleteFile_ts_delete_unchecked(hit, disk, p) == DelStep("return", disk, TRUE)

\* after await blobClient.delete(); hit = the request was answered and removed the blob
deleteFile_ts_delete(hit, disk, p) ==
  IF hit THEN DelStep("return", disk, TRUE) ELSE DelStep("throw", disk, FALSE)

deleteFile_000_delete(hit, disk, p) ==
  IF hit THEN DelStep("return", disk, TRUE) ELSE DelStep("throw", disk, FALSE)

\* part_004: deletedFromAzure = true only past the delete; an error is logged and skipped
deleteFile_004_delete(hit, disk, p) == deleteLocal_004(disk, p, hit)

deleteFile_deleteOf(r, hit, disk, p) ==
  CASE r = "storage_ts" -> deleteFile_ts_delete(hit, disk, p)
    [] r = "part_000" -> deleteFile_000_delete(hit, disk, p)
    [] r = "part_004" -> deleteFile_004_delete(hit, disk, p)

\* part_000 in local mode
deleteFile_000_local(disk, p) ==
  IF existsSync(disk, <<localStoragePath, p>>)
    THEN DelStep("return", unlinkSync(disk, <<localStoragePath, p>>), TRUE)
    ELSE DelStep("return", disk, FALSE)

\* res.status(...) of the route DELETE /delete/:clientId/:documentType/:filename
deleteRouteStatus(threw, success) ==
  IF threw THEN StatusError ELSE IF success THEN StatusOk ELSE StatusNotFound

\* deleteFile ends: it returns st.result or throws.  removedRemote / removedLocal
\* record what the call took out of the two stores; fault = the remote store was
\* not there to answer
DelDone(h, c, st, removedRemote, fault) ==
  /\ Finish(h, [RetOf(c) EXCEPT
        !.ok = (st.goto = "return"),
        !.deleted = (st.goto = "return" /\ st.result),
        !.removedRemote = removedRemote,
        !.removedLocal = (st.disk # files),
        !.fault = fault,
        !.status = deleteRouteStatus(st.goto = "throw", st.result)])
  /\ files' = st.disk

\* the call: pred remembers the delete of the same path that completed just before, or
\* is "racing" when another handler's deleteFile of the same path is between its awaits
DelCall(h, p) ==
  [NewCall("deleteFile", p) EXCEPT
     !.heldRemote = (blobs[p] # NoBlob),
     !.heldLocal = (\E d \in LocalBackendDirs(rev) : files[<<d, p>>] # NoFile),
     !.pred = IF \E g \in Handlers \ {h} :
                     pc[g] \in {"df_exists", "df_delete"} /\ call[g].path = p
                THEN "racing"
              ELSE IF /\ ret[h].op = "deleteFile" /\ ret[h].path = p /\ ~ret[h].fault
                 /\ (ret[h].heldRemote \/ ret[h].heldLocal)
                THEN IF ~ret[h].ok THEN "error" ELSE IF ret[h].deleted THEN "true" ELSE "false"
                ELSE "none"]

deleteFile_ts(h) ==
  /\ Idle(h)
  /\ budget' = Spend(h)
  /\ rev = "storage_ts"
  /\ \E p \in Paths :
       /\ IF ~blobServiceClient
            THEN DelDone(h, DelCall(h, p), DelStep("throw", files, FALSE), FALSE, TRUE)
            ELSE /\ Suspend(h, "df_exists", DelCall(h, p))
                 /\ UNCHANGED <<files>>
  /\ UNCHANGED <<rev, isLocalStorage, blobServiceClient, connTestPending,
                 containerExists, blobs, remoteEverOk>>
  /\ UNCHANGED auxvars

deleteFile_000(h) ==
  /\ Idle(h)
  /\ budget' = Spend(h)
  /\ rev = "part_000"
  /\ \E p \in Paths :
       /\ IF isLocalStorage
            THEN DelDone(h, DelCall(h, p), deleteFile_000_local(files, p), FALSE, FALSE)
          ELSE IF ~blobServiceClient
            THEN DelDone(h, DelCall(h, p), DelStep("throw", files, FALSE), FALSE, TRUE)
          ELSE /\ Suspend(h, "df_exists", DelCall(h, p))
               /\ UNCHANGED <<files>>
  /\ UNCHANGED <<rev, isLocalStorage, blobServiceClient, connTestPending,
                 containerExists, blobs, remoteEverOk>>
  /\ UNCHANGED auxvars

deleteFile_004(h) ==
  /\ Idle(h)
  /\ budget' = Spend(h)
  /\ rev = "part_004"
  /\ \E p \in Paths :
       /\ IF ~isLocalStorage /\ blobServiceClient
            THEN /\ Suspend(h, "df_exists", DelCall(h, p))
                 /\ UNCHANGED <<files>>
            ELSE DelDone(h, DelCall(h, p), deleteLocal_004(files, p, FALSE), FALSE, FALSE)
  /\ UNCHANGED <<rev, isLocalStorage, blobServiceClient, connTestPending,
                 containerExists, blobs, remoteEverOk>>
  /\ UNCHANGED auxvars

\* await blobClient.exists() inside deleteFile
deleteFile_exists(h) ==
  /\ pc[h] = "df_exists"
  /\ \E reach \in BOOLEAN :
       LET c == call[h]
           st == deleteFile_existsOf(rev, reach, blobs[c.path] # NoBlob, files, c.path)
       IN /\ remoteEverOk' = (remoteEverOk \/ reach)
          /\ IF st.goto = "delete"
               THEN /\ Suspend(h, "df_delete", c)
                    /\ UNCHANGED <<files>>
               ELSE DelDone(h, c, st, FALSE, ~reach)
  /\ UNCHANGED <<rev, budget, isLocalStorage, blobServiceClient, connTestPending,
                 containerExists, blobs>>
  /\ UNCHANGED auxvars

\* await blobClient.delete() inside deleteFile: a blob that is gone answers 404
deleteFile_delete(h) ==
  /\ pc[h] = "df_delete"
  /\ \E reach \in BOOLEAN :
       LET c == call[h]
           hit == reach /\ blobs[c.path] # NoBlob
       IN /\ remoteEverOk' = (remoteEverOk \/ reach)
          /\ blobs' = IF hit THEN [blobs EXCEPT ![c.path] = NoBlob] ELSE blobs
          /\ DelDone(h, c, deleteFile_deleteOf(rev, hit, files, c.path), hit, ~reach)
  /\ UNCHANGED <<rev, budget, isLocalStorage, blobServiceClient, connTestPending,
                 containerExists>>
  /\ UNCHANGED auxvars

----------------------------------------------------------------------------
(* The constructor's connection test and the migration script's container set-up *)

\* part_004: testConnection(), started and not awaited by the constructor, switches the
\* service to local storage when it fails.  (In storage.ts a failed test only rejects
\* a promise nobody awaits; part_000 has no such test.)
testConnection(h) ==
  /\ connTestPending
  /\ \E reach \in BOOLEAN :
       /\ remoteEverOk' = (remoteEverOk \/ reach)
       /\ isLocalStorage' = IF ~reach THEN TRUE ELSE isLocalStorage
  /\ connTestPending' = FALSE
  /\ UNCHANGED <<rev, budget, blobServiceClient, containerExists, blobs, files,
                 pc, call, ret>>
  /\ UNCHANGED auxvars

\* migrate-local-to-azure.ts: const exists = await containerClient.exists()
migrateLocalFilesToAzure(h) ==
  /\ Idle(h)
  /\ budget' = Spend(h)
  /\ blobServiceClient
  /\ Suspend(h, "ms_exists", [NoCall EXCEPT !.op = "migrateLocalFilesToAzure"])
  /\ UNCHANGED <<rev, isLocalStorage, blobServiceClient, connTestPending,
                 containerExists, blobs, files, remoteEverOk>>
  /\ UNCHANGED auxvars

migrateLocalFilesToAzure_exists(h) ==
  /\ pc[h] = "ms_exists"
  /\ \E reach \in BOOLEAN :
       /\ remoteEverOk' = (remoteEverOk \/ reach)
       /\ IF reach /\ ~containerExists
            THEN Suspend(h, "ms_create", call[h])
            ELSE Finish(h, [RetOf(call[h]) EXCEPT !.ok = reach, !.fault = ~reach,
                                                  !.remote = IF reach THEN "ok" ELSE "fail"])
  /\ UNCHANGED <<rev, budget, isLocalStorage, blobServiceClient, connTestPending,
                 containerExists, blobs, files>>
  /\ UNCHANGED auxvars

\* if (!exists) await containerClient.create()
migrateLocalFilesToAzure_create(h) ==
  /\ pc[h] = "ms_create"
  /\ \E reach \in BOOLEAN :
       LET r == create(reach, containerExists)
       IN /\ remoteEverOk' = (remoteEverOk \/ reach)
          /\ containerExists' = r.exists
          /\ Finish(h, [RetOf(call[h]) EXCEPT !.ok = r.ok, !.fault = ~reach,
                                              !.remote = IF reach THEN "ok" ELSE "fail"])
  /\ UNCHANGED <<rev, budget, isLocalStorage, blobServiceClient, connTestPending,
                 blobs, files>>
  /\ UNCHANGED auxvars

----------------------------------------------------------------------------
(* Specification *)

\* what the constructor of each revision leaves in isLocalStorage / blobServiceClient
Constructed(r, localMode, client) ==
  CASE r = "storage_ts" -> ~localMode /\ client
    [] r = "part_000" -> ~(localMode /\ client)
    [] r = "part_004" -> localMode = ~client

\* the local disk before the service starts: empty, or one file left in ./uploads by an
\* earlier run (/workspace/uploads is that same directory when the service runs in
\* /workspace, and holds nothing of its own)
LegacyDisks ==
  LET empty == [f \in LocalDirs \X Paths |-> NoFile]
  IN {empty, [empty EXCEPT ![<<localStoragePath, LegacyPath>>] = LegacyContent]}

InitWith(b) ==
  /\ rev \in Revisions
  /\ budget = b
  /\ isLocalStorage \in BOOLEAN
  /\ blobServiceClient \in BOOLEAN
  /\ Constructed(rev, isLocalStorage, blobServiceClient)
  /\ connTestPending = (rev = "part_004" /\ blobServiceClient)
  /\ containerExists = FALSE
  /\ blobs = [p \in Paths |-> NoBlob]
  /\ files \in LegacyDisks
  /\ pc = [h \in Handlers |-> "idle"]
  /\ call = [h \in Handlers |-> NoCall]
  /\ ret = [h \in Handlers |-> NoRet]
  /\ remoteEverOk = FALSE

\* nothing is being planned
NoPlan == [pc |-> "none", a |-> 0, b |-> 0, ra |-> 0, rb |-> 0]

\* no path is being built
NoCodec == [pc |-> "none", clientId |-> <<>>, documentType |-> <<>>, fileName |-> <<>>,
            path |-> <<>>, parts |-> <<>>]

\* no token has been issued or presented
NoToken == [pc |-> "none", issuedFor |-> NoPath, issuedAt |-> 0, issued |-> <<>>,
            presented |-> <<>>, requested |-> NoPath, now |-> 0, accepted |-> FALSE,
            status |-> 0, served |-> NoBlob, sas |-> NoUrl]

\* no migration has been requested
\*   documentUrls : the entries of req.body.documentUrls in the order of Object.entries;
\*                  url is the stored reference, src the (tenant, category, filename) it
\*                  was written for (NoPath if none)
\*   i            : index of the entry the loop is at; documentKey is "k" + i
\*   verdict, documentType, filename : what the loop extracted from entry i
\*   logged       : the entries that ended in console.error
\*   trace        : per entry, whether it was downloaded, the outcome of its uploadFile,
\*                  and whether a request went unanswered or a local write failed (fault)
\*   first        : empty during the first request; during a repeated request the report
\*                  and the trace of the first one and the stores it left
NoMig == [pc |-> "none", route |-> "", tempId |-> "", newClientId |-> "",
          documentUrls |-> <<>>, i |-> 0, verdict |-> "", documentType |-> <<>>,
          filename |-> <<>>, updatedUrls |-> <<>>, logged |-> {}, trace |-> <<>>,
          status |-> 0, first |-> <<>>]

AuxAtRest == plan = NoPlan /\ codec = NoCodec /\ token = NoToken /\ mig = NoMig

\* a step of the part named which leaves the other parts alone
Only(which) ==
  /\ UNCHANGED storevars
  /\ IF which = "plan" THEN TRUE ELSE UNCHANGED plan
  /\ IF which = "codec" THEN TRUE ELSE UNCHANGED codec
  /\ IF which = "token" THEN TRUE ELSE UNCHANGED token
  /\ IF which = "mig" THEN TRUE ELSE UNCHANGED mig

\* one request handler: its calls follow one another
Init == InitWith([h \in Handlers |-> IF h = "h1" THEN MaxCalls ELSE 0]) /\ AuxAtRest

\* two request handlers: their calls interleave at every await
InitRace == InitWith([h \in Handlers |-> IF h = "h1" THEN MaxRaceCalls ELSE 1]) /\ AuxAtRest

Next ==
  \E h \in Handlers :
    \/ EnsureContainerCall(h)
    \/ EnsureContainerReply(h)
    \/ uploadFile_ts(h)
    \/ uploadFile_000(h)
    \/ uploadFile_004(h)
    \/ uploadFile_ensureContainer(h)
    \/ uploadFile_upload(h)
    \/ generateSecureUrl_ts(h)
    \/ generateSecureUrl_000(h)
    \/ generateSecureUrl_004(h)
    \/ generateSecureUrl_exists(h)
    \/ secure_fetch(h)
    \/ deleteFile_ts(h)
    \/ deleteFile_000(h)
    \/ deleteFile_004(h)
    \/ deleteFile_exists(h)
    \/ deleteFile_delete(h)
    \/ testConnection(h)
    \/ migrateLocalFilesToAzure(h)
    \/ migrateLocalFilesToAzure_exists(h)
    \/ migrateLocalFilesToAzure_create(h)

Spec == Init /\ [][Next]_vars

\* ... in their writes, deletes and container set-ups
NextRace ==
  \E h \in Handlers :
    \/ EnsureContainerCall(h)
    \/ EnsureContainerReply(h)
    \/ uploadFile_ts(h)
    \/ uploadFile_000(h)
    \/ uploadFile_004(h)
    \/ uploadFile_ensureContainer(h)
    \/ uploadFile_upload(h)
    \/ deleteFile_ts(h)
    \/ deleteFile_000(h)
    \/ deleteFile_004(h)
    \/ deleteFile_exists(h)
    \/ deleteFile_delete(h)
    \/ testConnection(h)
    \/ migrateLocalFilesToAzure(h)
    \/ migrateLocalFilesToAzure_exists(h)
    \/ migrateLocalFilesToAzure_create(h)

SpecRace == InitRace /\ [][NextRace]_vars

----------------------------------------------------------------------------
(* calculateConcurrency *)

MiB == 1024 * 1024

\* fileContent.length of an upload: each threshold, the size one byte below it and the
\* size one byte above it, and the sizes 0 and 100 MiB at the two ends
FileSizes ==
  {0, 100 * MiB} \cup {k * MiB + d : k \in {1, 5, 20, 50}, d \in {0 - 1, 0, 1}}

\* variant: the sizes up to and including 1 MiB get no parallel upload
calculateConcurrency_upTo(fileSize) ==
  IF fileSize <= 1024 * 1024 THEN 1
  ELSE IF fileSize < 5 * 1024 * 1024 THEN 2
  ELSE IF fileSize < 20 * 1024 * 1024 THEN 4
  ELSE IF fileSize < 50 * 1024 * 1024 THEN 8
  ELSE 16

\* variant: the results of the two middle ranges change places
calculateConcurrency_swapped(fileSize) ==
  IF fileSize < 1024 * 1024 THEN 1
  ELSE IF fileSize < 5 * 1024 * 1024 THEN 2
  ELSE IF fileSize < 20 * 1024 * 1024 THEN 8
  ELSE IF fileSize < 50 * 1024 * 1024 THEN 4
  ELSE 16

calculateConcurrency(fileSize) ==
  IF fileSize < 1024 * 1024 THEN 1
  ELSE IF fileSize < 5 * 1024 * 1024 THEN 2
  ELSE IF fileSize < 20 * 1024 * 1024 THEN 4
  ELSE IF fileSize < 50 * 1024 * 1024 THEN 8
  ELSE 16

\* the storage service as constructed by storage.ts, with no caller
ServiceAtRest ==
  /\ InitWith([h \in Handlers |-> 0])
  /\ rev = "storage_ts"
  /\ files = [f \in LocalDirs \X Paths |-> NoFile]

\* two uploads, of a and of b bytes, are about to be planned
InitPlan ==
  /\ ServiceAtRest
  /\ plan \in {[NoPlan EXCEPT !.pc = "start", !.a = a, !.b = b] : a, b \in FileSizes}
  /\ codec = NoCodec
  /\ token = NoToken
  /\ mig = NoMig

\* const concurrency = this.calculateConcurrency(fileContent.length), first upload
PlanFirst ==
  /\ plan.pc = "start"
  /\ plan' = [plan EXCEPT !.pc = "first", !.ra = calculateConcurrency(plan.a)]
  /\ Only("plan")

\* the same for the second upload
PlanSecond ==
  /\ plan.pc = "first"
  /\ plan' = [plan EXCEPT !.pc = "done", !.rb = calculateConcurrency(plan.b)]
  /\ Only("plan")

NextPlan == PlanFirst \/ PlanSecond

SpecPlan == InitPlan /\ [][NextPlan]_vars

----------------------------------------------------------------------------
(* Strings, the path of a document *)

\* A string is a sequence of symbols; "/" and "?" are the characters of that name, any
\* other symbol stands for a run of characters that holds neither.
MaxLen == 2
CodecAlphabet == {"a", ".", "/"}
Strings(alphabet, n) == UNION {[1..k -> alphabet] : k \in 0..n}

\* String.prototype.indexOf(sep), counted from 1; 0 when sep is not in s
indexOf(s, sep) ==
  IF \E i \in 1..Len(s) : s[i] = sep
    THEN CHOOSE i \in 1..Len(s) : s[i] = sep /\ \A j \in 1..(i - 1) : s[j] # sep
    ELSE 0

\* String.prototype.split(sep) for a separator of one character
RECURSIVE split(_, _)
split(s, sep) ==
  LET i == indexOf(s, sep)
  IN IF i = 0 THEN <<s>>
              ELSE <<SubSeq(s, 1, i - 1)>> \o split(SubSeq(s, i + 1, Len(s)), sep)

\* variant: the separator between documentType and fileName is left out
blobPathString_short(clientId, documentType, fileName) ==
  clientId \o <<"/">> \o documentType \o fileName

\* `${clientId}/${documentType}/${fileName}` as a string
blobPathString(clientId, documentType, fileName) ==
  clientId \o <<"/">> \o documentType \o <<"/">> \o fileName

\* the three components of a path about to be built
InitCodec ==
  /\ ServiceAtRest
  /\ plan = NoPlan
  /\ token = NoToken
  /\ mig = NoMig
  /\ codec \in {[NoCodec EXCEPT !.pc = "start", !.clientId = c, !.documentType = d,
                                !.fileName = f] :
                  c, d, f \in Strings(CodecAlphabet, MaxLen)}

\* const blobPath = `${clientId}/${documentType}/${fileName}`
BuildPath ==
  /\ codec.pc = "start"
  /\ codec' = [codec EXCEPT
       !.pc = "built",
       !.path = blobPathString(codec.clientId, codec.documentType, codec.fileName)]
  /\ Only("codec")

\* const urlParts = url.split('/')
SplitPath ==
  /\ codec.pc = "built"
  /\ codec' = [codec EXCEPT !.pc = "split", !.parts = split(codec.path, "/")]
  /\ Only("codec")

NextCodec == BuildPath \/ SplitPath

SpecCodec == InitCodec /\ [][NextCodec]_vars

----------------------------------------------------------------------------
(* Access tokens: the routes /token and /public *)

\* Date.now() when a token is issued, in milliseconds
IssueTimes == {0, 60000}

\* the age of a token when it is presented; with age 0 a token that carries the later
\* issue time is presented before that time
TokenAges == {0, 5 * 60 * 1000, 30 * 60 * 1000, 30 * 60 * 1000 + 1, 31 * 60 * 1000}

\* Date.now() when a token is presented
PresentTimes == {t + d : t \in IssueTimes, d \in TokenAges}

\* `${timestamp}`: the decimal digits of a timestamp, one symbol of the token
toString(timestamp) == IF timestamp = 0 THEN "0" ELSE "60000"

\* Math.random().toString(36).substring(2, 15)
RandomPart == "r"

NaN == [nan |-> TRUE, n |-> 0]
Number(n) == [nan |-> FALSE, n |-> n]

\* parseInt(s, 10): the number of the leading digits, NaN when s does not start with one
parseInt(s) ==
  IF s # <<>> /\ s[1] \in {toString(t) : t \in IssueTimes}
    THEN Number(CHOOSE t \in IssueTimes : toString(t) = s[1])
    ELSE NaN

\* variant: a token may be an hour old
maxTokenAge_hour == 60 * 60 * 1000

\* const maxTokenAge = 30 * 60 * 1000
maxTokenAge == 30 * 60 * 1000

StatusUnauthorized == 401

\* the validation at the head of the route /public: the status it answers, 0 when the
\* request goes on.  A comparison with NaN is false.
validateToken(tok, now) ==
  LET tokenParts == split(tok, "_")
      timestamp == parseInt(tokenParts[1])
  IN IF Len(tokenParts) < 2 THEN StatusUnauthorized
     ELSE IF ~timestamp.nan /\ now - timestamp.n > maxTokenAge THEN StatusUnauthorized
     ELSE 0

\* tokens that no /token request issued
ForgedTokens ==
  {<<>>, <<"x">>, <<"0">>, <<"_">>, <<"x", "_", RandomPart>>, <<"0", "_">>}

\* what the two stores hold when a token is presented: nothing, or one document stored
\* earlier in either of them
InitToken ==
  /\ rev \in Revisions
  /\ isLocalStorage \in BOOLEAN
  /\ blobServiceClient \in BOOLEAN
  /\ Constructed(rev, isLocalStorage, blobServiceClient)
  /\ connTestPending = FALSE
  /\ containerExists = TRUE
  /\ blobs \in {[p \in Paths |-> NoBlob],
                [p \in Paths |-> IF p = LegacyPath
                                   THEN [content |-> LegacyContent, ctype |-> "image/png"]
                                   ELSE NoBlob]}
  /\ files \in LegacyDisks
  /\ budget = [h \in Handlers |-> 0]
  /\ pc = [h \in Handlers |-> "idle"]
  /\ call = [h \in Handlers |-> NoCall]
  /\ ret = [h \in Handlers |-> NoRet]
  /\ remoteEverOk = FALSE
  /\ plan = NoPlan
  /\ codec = NoCodec
  /\ token = NoToken
  /\ mig = NoMig

\* GET /token/:clientId/:documentType/:filename
IssueToken ==
  /\ token.pc = "none"
  /\ \E p \in Paths, timestamp \in IssueTimes :
       token' = [token EXCEPT
         !.pc = "issued", !.issuedFor = p, !.issuedAt = timestamp,
         !.issued = <<toString(timestamp), "_", RandomPart>>]
  /\ Only("token")

\* GET /public/:token/:clientId/:documentType/:filename, up to the first await
PublicRequest ==
  /\ token.pc = "issued"
  /\ \E tok \in {token.issued} \cup ForgedTokens, p \in Paths, now \in PresentTimes :
       LET status == validateToken(tok, now)
       IN token' = [token EXCEPT
            !.pc = IF status = 0 THEN "serve" ELSE "done",
            !.presented = tok, !.requested = p, !.now = now,
            !.accepted = (status = 0), !.status = status]
  /\ Only("token")

\* the rest of the route: the blob through a read-only SAS URL if the remote store has
\* it and answers, else the first local file that exists, else 404
PublicServe ==
  /\ token.pc = "serve"
  /\ \E reach \in BOOLEAN :
       LET p == token.requested
           i == firstExisting(files, p)
       IN token' = [token EXCEPT
            !.pc = "done",
            \* blobClient.generateSasUrl({expiresOn: now + 5 minutes, permissions: "r"})
            !.sas = IF blobServiceClient /\ reach /\ blobs[p] # NoBlob
                      THEN generateSasUrl(p, token.now, 5 * 60) ELSE NoUrl,
            !.status = IF (blobServiceClient /\ reach /\ blobs[p] # NoBlob) \/ i # 0
                         THEN StatusOk ELSE StatusNotFound,
            !.served = IF blobServiceClient /\ reach /\ blobs[p] # NoBlob THEN blobs[p]
                       ELSE IF i # 0
                         THEN [content |-> files[localPaths(p)[i]],
                               ctype |-> contentTypeOf(extname(p[3]))]
                       ELSE NoBlob]
  /\ Only("token")

NextToken == IssueToken \/ PublicRequest \/ PublicServe

SpecToken == InitToken /\ [][NextToken]_vars

----------------------------------------------------------------------------
(* Migration: the routes /migrate/new-client/:newClientId and /migrate/:tempId/:newClientId *)

MaxBatch == 3

\* symbols that begin with "temp-"
TempSymbols == {"temp-1"}

\* the tenants documents are filed under before a client has its id
OldTenants == {"temp-1", "new-client"}

\* what the body of the loop makes of one url before it downloads anything:
\*   "skip"    : continue without a message
\*   "invalid" : console.error('Invalid URL format ...' / 'Could not extract ...'), continue
\*   "ok"      : documentType and filename extracted
\* idx is the index findIndex returns, counted from 0, -1 if no part matches
extract(route, tempId, url) ==
  LET urlParts == split(url, "/")
      isTemp(part) == part # <<>> /\ part[1] \in TempSymbols
      findIndex(hits) ==
        IF hits = {} THEN 0 - 1
        ELSE (CHOOSE i \in hits : \A j \in hits : i <= j) - 1
      byName == {i \in 1..Len(urlParts) : urlParts[i] = <<"new-client">> \/ isTemp(urlParts[i])}
      byId == {i \in 1..Len(urlParts) : urlParts[i] = <<tempId>>}
      byTemp == {i \in 1..Len(urlParts) : isTemp(urlParts[i])}
      idx == IF route = "new-client" THEN findIndex(byName)
             ELSE IF findIndex(byId) >= 0 THEN findIndex(byId) ELSE findIndex(byTemp)
      \* url.includes('new-client') || url.includes('/temp-')
      shouldMigrate ==
        \/ \E i \in 1..Len(url) : url[i] = "new-client"
        \/ \E i \in 1..(Len(url) - 1) : url[i] = "/" /\ url[i + 1] \in TempSymbols
      out(v, d, f) == [verdict |-> v, documentType |-> d, filename |-> f]
  IN IF url = <<>> THEN out("skip", <<>>, <<>>)
     ELSE IF route = "new-client" /\ ~shouldMigrate THEN out("skip", <<>>, <<>>)
     ELSE IF idx <= 0 \/ idx >= Len(urlParts) - 1 THEN out("invalid", <<>>, <<>>)
     ELSE LET documentType == urlParts[idx + 2]
              filename == IF idx + 3 <= Len(urlParts)
                            THEN split(urlParts[idx + 3], "?")[1] ELSE <<>>
          IN IF documentType = <<>> \/ filename = <<>>
               THEN out("invalid", <<>>, <<>>)
               ELSE out("ok", documentType, filename)

\* blockBlobClient.url as a string
RemoteRef(p) ==
  <<"https:", "/", "/", AccountHost, "/", "customer-documents", "/", p[1], "/", p[2], "/", p[3]>>

\* path.join(localStoragePath, clientId, documentType, fileName) as a string
UploadsRef(p) == <<localStoragePath, "/", p[1], "/", p[2], "/", p[3]>>

\* the entries of a batch: a blob URL, a blob URL with a query, a local path, a blob URL
\* cut short after the tenant, and an empty value
MigEntries ==
  {[url |-> RemoteRef(<<"temp-1", "nic_proof", "a.pdf">>),
    src |-> <<"temp-1", "nic_proof", "a.pdf">>],
   [url |-> RemoteRef(<<"new-client", "nic_proof", "b.bin">>) \o <<"?", "sig">>,
    src |-> <<"new-client", "nic_proof", "b.bin">>],
   [url |-> UploadsRef(<<"temp-1", "nic_proof", "b.bin">>),
    src |-> <<"temp-1", "nic_proof", "b.bin">>],
   [url |-> SubSeq(RemoteRef(<<"temp-1", "nic_proof", "a.pdf">>), 1, 8), src |-> NoPath],
   [url |-> <<>>, src |-> NoPath]}

Batches == UNION {[1..n -> MigEntries] : n \in 1..MaxBatch}

\* the objects filed under the old tenants, and the keys of the two stores
OldPaths == OldTenants \X DocTypes \X FileNames
MigPaths == Paths \cup OldPaths
OldObject(p) == IF p[3] = "a.pdf" THEN [content |-> "b1", ctype |-> "application/pdf"]
                                  ELSE [content |-> "b2", ctype |-> "image/png"]

\* await fetch(url): throws for a string that is no absolute URL; otherwise the answer
\* of the blob service for the blob that the URL names
fetch(url, reach, store) ==
  LET parts == split(url, "/")
      p == <<parts[5][1], parts[6][1], split(parts[7], "?")[1][1]>>
  IN IF url = <<>> \/ url[1] # "https:" THEN [threw |-> TRUE, ok |-> FALSE, doc |-> NoBlob]
     ELSE IF reach /\ Len(parts) = 7 /\ p \in DOMAIN store /\ store[p] # NoBlob
       THEN [threw |-> FALSE, ok |-> TRUE, doc |-> store[p]]
       ELSE [threw |-> FALSE, ok |-> FALSE, doc |-> NoBlob]

\* the service as constructed, the remote store holding the objects of the old tenants
InitMigrate ==
  /\ rev \in Revisions
  /\ isLocalStorage \in BOOLEAN
  /\ blobServiceClient \in BOOLEAN
  /\ Constructed(rev, isLocalStorage, blobServiceClient)
  /\ connTestPending = FALSE
  /\ containerExists = TRUE
  /\ blobs = [p \in MigPaths |-> IF p \in OldPaths THEN OldObject(p) ELSE NoBlob]
  /\ files = [f \in LocalDirs \X MigPaths |-> NoFile]
  /\ budget = [h \in Handlers |-> 0]
  /\ pc = [h \in Handlers |-> "idle"]
  /\ call = [h \in Handlers |-> NoCall]
  /\ ret = [h \in Handlers |-> NoRet]
  /\ remoteEverOk = FALSE
  /\ plan = NoPlan
  /\ codec = NoCodec
  /\ token = NoToken
  /\ mig = NoMig

\* the head of either route: 400 without documentUrls, otherwise the loop starts
MigrateRequest ==
  /\ mig.pc = "none"
  /\ \E route \in {"new-client", "temp"}, newClientId \in {"c1", "temp-1"},
        given \in BOOLEAN, batch \in Batches :
       mig' = IF ~given
                THEN [mig EXCEPT !.pc = "done", !.route = route,
                                 !.newClientId = newClientId, !.status = 400]
                ELSE [mig EXCEPT
                        !.pc = "entry", !.route = route,
                        !.tempId = IF route = "temp" THEN "temp-1" ELSE "",
                        !.newClientId = newClientId, !.documentUrls = batch, !.i = 1,
                        !.updatedUrls = [k \in 1..Len(batch) |-> NoUrl],
                        !.trace = [k \in 1..Len(batch) |->
                                     [fetched |-> FALSE, remote |-> "none",
                                      local |-> "none", path |-> NoPath,
                                      fault |-> FALSE]]]
  /\ Only("mig")

\* variant: an entry that cannot be parsed ends the loop (break instead of continue)
MigrateEntry_break ==
  /\ mig.pc = "entry"
  /\ mig.i <= Len(mig.documentUrls)
  /\ LET e == extract(mig.route, mig.tempId, mig.documentUrls[mig.i].url)
     IN mig' = [mig EXCEPT
          !.verdict = e.verdict, !.documentType = e.documentType, !.filename = e.filename,
          !.pc = IF e.verdict = "ok" THEN "fetch" ELSE "entry",
          !.i = IF e.verdict = "ok" THEN @
                ELSE IF e.verdict = "invalid" THEN Len(mig.documentUrls) + 1 ELSE @ + 1,
          !.logged = IF e.verdict = "invalid" THEN @ \cup {mig.i} ELSE @]
  /\ Only("mig")

\* one pass of the loop up to await fetch(url), or to the continue that ends it
MigrateEntry ==
  /\ mig.pc = "entry"
  /\ mig.i <= Len(mig.documentUrls)
  /\ LET e == extract(mig.route, mig.tempId, mig.documentUrls[mig.i].url)
     IN mig' = [mig EXCEPT
          !.verdict = e.verdict, !.documentType = e.documentType, !.filename = e.filename,
          !.pc = IF e.verdict = "ok" THEN "fetch" ELSE "entry",
          !.i = IF e.verdict = "ok" THEN @ ELSE @ + 1,
          !.logged = IF e.verdict = "invalid" THEN @ \cup {mig.i} ELSE @]
  /\ Only("mig")

\* the download ends: a throw or an answer that is not ok ends the pass, otherwise
\* uploadFile(newClientId, documentType, filename, fileBuffer, contentType) is called
MigrateFetched ==
  /\ mig.pc = "fetch"
  /\ \E reach \in BOOLEAN, wrote \in BOOLEAN :
       LET response == fetch(mig.documentUrls[mig.i].url, reach, blobs)
           contentType == IF response.doc.ctype = "" THEN "application/octet-stream"
                                                     ELSE response.doc.ctype
           doc == [content |-> response.doc.content, ctype |-> contentType]
           p == blobPath(mig.newClientId, mig.documentType[1], mig.filename[1])
       IN IF response.threw \/ ~response.ok
            THEN /\ wrote
                 /\ mig' = [mig EXCEPT !.pc = "entry", !.i = @ + 1,
                                       !.logged = @ \cup {mig.i},
                                       !.trace[mig.i].fault = ~response.threw /\ ~reach]
                 /\ UNCHANGED <<pc, call, ret, files>>
            ELSE /\ mig' = [mig EXCEPT !.pc = "uploading",
                                       !.trace[mig.i].fetched = TRUE]
                 /\ CASE rev = "storage_ts" -> wrote /\ uploadFile_ts_call("h1", p, doc)
                      [] rev = "part_000" -> uploadFile_000_call("h1", p, doc, wrote)
                      [] rev = "part_004" -> uploadFile_004_call("h1", p, doc, wrote)
  /\ UNCHANGED <<rev, isLocalStorage, blobServiceClient, connTestPending, containerExists,
                 blobs, budget, remoteEverOk>>
  /\ UNCHANGED <<plan, codec, token>>

\* variant: the original is deleted once its copy is stored
MigrateStored_cleanup ==
  /\ mig.pc = "uploading"
  /\ pc["h1"] = "idle"
  /\ LET r == ret["h1"]
         src == mig.documentUrls[mig.i].src
     IN /\ mig' = [mig EXCEPT
             !.pc = "entry", !.i = @ + 1,
             !.updatedUrls[mig.i] = IF r.ok THEN r.url ELSE NoUrl,
             !.logged = IF r.ok THEN @ ELSE @ \cup {mig.i},
             !.trace[mig.i] = [fetched |-> TRUE, remote |-> r.remote, local |-> r.local,
                               path |-> r.path, fault |-> r.fault \/ r.local = "fail"]]
        /\ blobs' = IF r.ok THEN [blobs EXCEPT ![src] = NoBlob] ELSE blobs
  /\ UNCHANGED <<rev, isLocalStorage, blobServiceClient, connTestPending, containerExists,
                 files, budget, pc, call, ret, remoteEverOk>>
  /\ UNCHANGED <<plan, codec, token>>

\* uploadFile has returned or thrown: updatedUrls[documentKey] = uploadResult.url, or the
\* catch of the pass
MigrateStored ==
  /\ mig.pc = "uploading"
  /\ pc["h1"] = "idle"
  /\ LET r == ret["h1"]
     IN mig' = [mig EXCEPT
          !.pc = "entry", !.i = @ + 1,
          !.updatedUrls[mig.i] = IF r.ok THEN r.url ELSE NoUrl,
          !.logged = IF r.ok THEN @ ELSE @ \cup {mig.i},
          !.trace[mig.i] = [fetched |-> TRUE, remote |-> r.remote, local |-> r.local,
                            path |-> r.path, fault |-> r.fault \/ r.local = "fail"]]
  /\ Only("mig")

\* res.json({message, updatedUrls}) after the loop
MigrateReply ==
  /\ mig.pc = "entry"
  /\ mig.i > Len(mig.documentUrls)
  /\ mig' = [mig EXCEPT !.pc = "done", !.status = StatusOk]
  /\ Only("mig")

NextMigrate ==
  \/ MigrateRequest
  \/ MigrateEntry
  \/ MigrateFetched
  \/ uploadFile_ensureContainer("h1")
  \/ uploadFile_upload("h1")
  \/ MigrateStored
  \/ MigrateReply

SpecMigrate == InitMigrate /\ [][NextMigrate]_vars

\* the head of the route for a request with the parameters and the body of the request
\* that has just been answered with 200: the loop starts again over the same entries
MigrateAgain ==
  /\ mig.pc = "done"
  /\ mig.status = StatusOk
  /\ mig.first = <<>>
  /\ mig' = [mig EXCEPT
               !.pc = "entry", !.i = 1, !.status = 0,
               !.verdict = "", !.documentType = <<>>, !.filename = <<>>,
               !.logged = {},
               !.updatedUrls = [k \in 1..Len(mig.documentUrls) |-> NoUrl],
               !.trace = [k \in 1..Len(mig.documentUrls) |->
                            [fetched |-> FALSE, remote |-> "none",
                             local |-> "none", path |-> NoPath,
                             fault |-> FALSE]],
               !.first = <<[updatedUrls |-> mig.updatedUrls, trace |-> mig.trace,
                            blobs |-> blobs, files |-> files]>>]
  /\ Only("mig")

MaxRepeat == 2

\* a migrate request at the head of its loop, with up to MaxRepeat entries in
\* documentUrls, the remote store holding the objects of the old tenants
InitRepeat ==
  /\ rev \in Revisions
  /\ isLocalStorage \in BOOLEAN
  /\ blobServiceClient \in BOOLEAN
  /\ Constructed(rev, isLocalStorage, blobServiceClient)
  /\ connTestPending = FALSE
  /\ containerExists = TRUE
  /\ blobs = [p \in MigPaths |-> IF p \in OldPaths THEN OldObject(p) ELSE NoBlob]
  /\ files = [f \in LocalDirs \X MigPaths |-> NoFile]
  /\ budget = [h \in Handlers |-> 0]
  /\ pc = [h \in Handlers |-> "idle"]
  /\ call = [h \in Handlers |-> NoCall]
  /\ ret = [h \in Handlers |-> NoRet]
  /\ remoteEverOk = FALSE
  /\ plan = NoPlan
  /\ codec = NoCodec
  /\ token = NoToken
  /\ \E route \in {"new-client", "temp"}, newClientId \in {"c1", "temp-1"},
        batch \in UNION {[1..n -> MigEntries] : n \in 1..MaxRepeat} :
       mig = [NoMig EXCEPT
                !.pc = "entry", !.route = route,
                !.tempId = IF route = "temp" THEN "temp-1" ELSE "",
                !.newClientId = newClientId, !.documentUrls = batch, !.i = 1,
                !.updatedUrls = [k \in 1..Len(batch) |-> NoUrl],
                !.trace = [k \in 1..Len(batch) |->
                             [fetched |-> FALSE, remote |-> "none",
                              local |-> "none", path |-> NoPath,
                              fault |-> FALSE]]]

NextRepeat ==
  \/ MigrateEntry
  \/ MigrateFetched
  \/ uploadFile_ensureContainer("h1")
  \/ uploadFile_upload("h1")
  \/ MigrateStored
  \/ MigrateReply
  \/ MigrateAgain

SpecRepeat == InitRepeat /\ [][NextRepeat]_vars

----------------------------------------------------------------------------
(* Extraction of documentType and filename from a stored reference *)

\* references to the documents of the old tenants, in the shapes they are stored in:
\* the path alone, the path under the uploads directory (relative and absolute), and the
\* URL of the blob; each with and without a query
ParseEntries ==
  {[url |-> prefix \o blobPathString(<<p[1]>>, <<p[2]>>, <<p[3]>>) \o query, src |-> p] :
     prefix \in {<<>>,
                 <<localStoragePath, "/">>,
                 <<"/", "workspace", "/", localStoragePath, "/">>,
                 <<"https:", "/", "/", AccountHost, "/", "customer-documents", "/">>},
     p \in OldPaths,
     query \in {<<>>, <<"?", "sig">>}}

\* a migrate request at the head of its loop, with one reference in documentUrls
InitParse ==
  /\ ServiceAtRest
  /\ plan = NoPlan
  /\ codec = NoCodec
  /\ token = NoToken
  /\ mig \in {[NoMig EXCEPT
                 !.pc = "entry", !.route = route,
                 !.tempId = IF route = "temp" THEN "temp-1" ELSE "",
                 !.newClientId = "c1", !.documentUrls = <<e>>, !.i = 1,
                 !.updatedUrls = <<NoUrl>>,
                 !.trace = <<[fetched |-> FALSE, remote |-> "none", local |-> "none",
                              path |-> NoPath, fault |-> FALSE]>>] :
                route \in {"new-client", "temp"}, e \in ParseEntries}

NextParse == MigrateEntry

SpecParse == InitParse /\ [][NextParse]_vars

----------------------------------------------------------------------------
(* Properties of uploadFile *)

\* the last call handler h completed
Last(h) == ret[h]

\* uploadFile of handler h has returned after a failed remote write and a local write
\* that succeeded
PutOnLocalOnly(h) ==
  Last(h).op = "uploadFile" /\ Last(h).remote = "fail" /\ Last(h).local = "ok"

Accepted(h) == Last(h).remote = "ok" \/ Last(h).local = "ok"

\* C2 as stated: uploadFile returns an error only when both the remote write and the
\* local write failed; whenever a backend accepts the write it returns a location.
C2_Original ==
  \A h \in Handlers :
    Last(h).op = "uploadFile" =>
      /\ ~Last(h).ok => (Last(h).remote = "fail" /\ Last(h).local = "fail")
      /\ Accepted(h) => (Last(h).ok /\ Last(h).url # NoUrl)

\* C2, amended: uploadFile returns an error only when no backend accepted the write,
\* after a write that failed or without a client for the remote store (storage.ts and
\* part_000 in remote mode do not attempt the local write after a failed remote one);
\* whenever a backend accepts the write it returns a location and no error.
C2_ErrorOnlyIfNoneAccepted ==
  \A h \in Handlers :
    Last(h).op = "uploadFile" =>
      /\ ~Last(h).ok =>
           /\ ~Accepted(h)
           /\ Last(h).remote = "fail" \/ Last(h).local = "fail" \/ ~blobServiceClient
      /\ Accepted(h) => (Last(h).ok /\ Last(h).url # NoUrl)

C2_Witness ==
  \E h \in Handlers :
    /\ Last(h).op = "uploadFile"
    /\ ~Last(h).ok
    /\ Last(h).remote = "fail"
    /\ Last(h).local = "none"

\* C3 as stated: if the remote store fails on every call, every uploadFile still
\* succeeds and a generateSecureUrl that follows it for the same path returns a local
\* reference to the object that uploadFile stored.
C3_Original ==
  ~remoteEverOk =>
    \A h \in Handlers :
      /\ Last(h).op = "uploadFile" /\ Last(h).fault => Last(h).ok
      /\ (Last(h).op = "generateSecureUrl" /\ Last(h).predDoc # NoBlob) =>
           /\ Last(h).ok
           /\ Last(h).url = LocalRef(localStoragePath, Last(h).path)
           /\ files[<<localStoragePath, Last(h).path>>] = Last(h).predDoc.content

\* C3, amended: if the remote store fails on every call, every uploadFile whose local
\* write succeeds (part_004, and part_000 in local mode) returns success, and a
\* generateSecureUrl that follows it for the same path returns a local reference to the
\* object that uploadFile stored; storage.ts and part_000 in remote mode write nothing
\* locally and fail the uploadFile.
C3_RemoteDown ==
  ~remoteEverOk =>
    \A h \in Handlers :
      /\ (Last(h).op = "uploadFile" /\ Last(h).local = "ok") => Last(h).ok
      /\ (Last(h).op = "uploadFile" /\ Last(h).fault /\ Last(h).local = "none") => ~Last(h).ok
      /\ (Last(h).op = "generateSecureUrl" /\ Last(h).predLocal = "ok") =>
           /\ Last(h).ok
           /\ Last(h).url = LocalRef(localStoragePath, Last(h).path)
           /\ files[<<localStoragePath, Last(h).path>>] = Last(h).predDoc.content

C3_Witness ==
  \E h \in Handlers :
    /\ ~remoteEverOk
    /\ rev = "part_004"
    /\ blobServiceClient
    /\ Last(h).op = "generateSecureUrl"
    /\ Last(h).predLocal = "ok"
    /\ Last(h).url = LocalRef(localStoragePath, Last(h).path)
    /\ files[<<localStoragePath, Last(h).path>>] = Last(h).predDoc.content

----------------------------------------------------------------------------
(* Properties of generateSecureUrl *)

\* generateSecureUrl of handler h has returned or thrown after the remote store
\* answered its existence check
GetAnswered(h) == Last(h).op = "generateSecureUrl" /\ Last(h).remote = "ok"

\* C4: when the blob exists in the remote store, generateSecureUrl returns a read
\* credential for exactly the requested path whose expiry is the issue time plus the
\* ttl, 15 minutes when no ttl is given; for a ttl above 0 the expiry is after the
\* issue time.
C4_Credential ==
  \A h \in Handlers :
    (GetAnswered(h) /\ blobs[Last(h).path] # NoBlob) =>
      LET ttl == IF Last(h).ttl.given THEN Last(h).ttl.secs ELSE 15 * 60
      IN /\ Last(h).ok
         /\ startsWithHttp(Last(h).url)
         /\ Last(h).url.path = Last(h).path
         /\ Last(h).url.perm = "r"
         /\ Last(h).url.expiresOn = Last(h).issuedAt + ttl * 1000
         /\ ttl > 0 => Last(h).url.expiresOn > Last(h).issuedAt

C4_Witness ==
  \E h \in Handlers :
    /\ GetAnswered(h)
    /\ blobs[Last(h).path] # NoBlob
    /\ ~Last(h).ttl.given
    /\ Last(h).issuedAt = 5000
    /\ Last(h).url.expiresOn = 905000

\* the remote store answered that the blob is not there while the file is on the local
\* disk under the same clientId/documentType/fileName
GetOnLocalOnly(h) ==
  /\ GetAnswered(h)
  /\ blobs[Last(h).path] = NoBlob
  /\ files[<<localStoragePath, Last(h).path>>] # NoFile

\* C5 as stated: when the object is absent from the remote store but present on the
\* local disk under the same path, generateSecureUrl returns a direct local reference
\* to it and does not fail.
C5_Original ==
  \A h \in Handlers :
    GetOnLocalOnly(h) =>
      /\ Last(h).ok
      /\ Last(h).url = LocalRef(localStoragePath, Last(h).path)

\* C5, amended: when the object is absent from the remote store but present on the
\* local disk under the same path, generateSecureUrl of part_000 and part_004 returns a
\* direct local reference to it and does not fail; generateSecureUrl of storage.ts
\* never looks at the local disk and fails with "File not found".
C5_LocalReference ==
  \A h \in Handlers :
    GetOnLocalOnly(h) =>
      IF rev = "storage_ts"
        THEN ~Last(h).ok /\ Last(h).url = NoUrl
        ELSE Last(h).ok /\ Last(h).url = LocalRef(localStoragePath, Last(h).path)

C5_Witness ==
  \E h \in Handlers :
    /\ GetOnLocalOnly(h)
    /\ rev = "part_000"
    /\ Last(h).url = LocalRef(localStoragePath, Last(h).path)

\* C6: when neither the remote store nor the local disk holds the object,
\* generateSecureUrl fails and returns neither a credential nor a local reference.
C6_NotFound ==
  \A h \in Handlers :
    ( /\ Last(h).op = "generateSecureUrl"
      /\ blobs[Last(h).path] = NoBlob
      /\ \A d \in LocalDirs : files[<<d, Last(h).path>>] = NoFile ) =>
      ~Last(h).ok /\ Last(h).url = NoUrl

----------------------------------------------------------------------------
(* Properties of deleteFile *)

\* deleteFile of handler h has completed with the remote store there to answer
Deleted(h) == Last(h).op = "deleteFile" /\ ~Last(h).fault

\* C7: from a state in which the object is stored (in the remote store, on the local
\* disk or both), two successive deleteFile calls for it with no uploadFile between
\* them return true and then false, and the second does not throw.  Last(h).pred is
\* the outcome of the first call, made while the object was stored.
C7_TrueThenFalse ==
  \A h \in Handlers :
    (Deleted(h) /\ Last(h).pred # "none") =>
      /\ Last(h).pred = "true"
      /\ Last(h).ok
      /\ ~Last(h).deleted

----------------------------------------------------------------------------
(* Properties of ensureContainer *)

\* ensureContainer of handler h has completed and its request reached the remote store
Ensured(h) == Last(h).op = "ensureContainer" /\ Last(h).remote = "ok"

----------------------------------------------------------------------------
(* Properties of the secure route *)

\* C10: after an uploadFile that succeeded, reading the object back through
\* generateSecureUrl and the fetch of the location it returns (the route
\* GET /secure/:clientId/:documentType/:filename) yields exactly the bytes and the
\* content type that were given to uploadFile.
C10_RoundTrip ==
  \A h \in Handlers :
    (Last(h).op = "secure" /\ Last(h).predDoc # NoBlob /\ Last(h).status = StatusOk) =>
      Last(h).served = Last(h).predDoc

\* the secure route has answered 200 for a path that two uploadFile calls, both
\* returned, wrote one after the other just before
ReadAfterOverwrite(h) ==
  /\ Last(h).op = "secure"
  /\ Last(h).status = StatusOk
  /\ Last(h).firstDoc # NoBlob
  /\ Last(h).predDoc # NoBlob

\* C11: after two uploadFile calls to the same path that both returned, a read of that
\* path yields the content and the content type of the second and never those of the
\* first.
C11_Overwrite ==
  \A h \in Handlers :
    ReadAfterOverwrite(h) =>
      /\ Last(h).served = Last(h).predDoc
      /\ Last(h).firstDoc # Last(h).predDoc => Last(h).served # Last(h).firstDoc

----------------------------------------------------------------------------
(* Properties of calculateConcurrency *)

\* C12: calculateConcurrency returns exactly the table value for every size: 1 below
\* 1 MiB, 2 from 1 MiB up to but excluding 5 MiB, 4 from 5 MiB up to but excluding
\* 20 MiB, 8 from 20 MiB up to but excluding 50 MiB and 16 from 50 MiB on.
C12_Table ==
  plan.pc \in {"first", "done"} =>
    /\ plan.a < 1048576 => plan.ra = 1
    /\ (1048576 <= plan.a /\ plan.a < 5242880) => plan.ra = 2
    /\ (5242880 <= plan.a /\ plan.a < 20971520) => plan.ra = 4
    /\ (20971520 <= plan.a /\ plan.a < 52428800) => plan.ra = 8
    /\ 52428800 <= plan.a => plan.ra = 16

\* the size exactly 1 MiB has been planned, with the result 2
C12_Witness == plan.pc = "first" /\ plan.a = 1048576 /\ plan.ra = 2

\* C13: calculateConcurrency is monotonic non-decreasing: for sizes a <= b the result
\* for a is at most the result for b.
C13_Monotonic ==
  (plan.pc = "done" /\ plan.a <= plan.b) => plan.ra <= plan.rb

\* two sizes on the two sides of the 20 MiB threshold have been planned
C13_Witness ==
  /\ plan.pc = "done"
  /\ plan.a = 20971519 /\ plan.b = 20971520
  /\ plan.ra = 4 /\ plan.rb = 8

----------------------------------------------------------------------------
(* Properties of the path of a document *)

\* a component of a path: not empty and without "/"
ValidComponent(c) == c # <<>> /\ \A i \in 1..Len(c) : c[i] # "/"

\* C14: for every clientId, documentType and fileName that are not empty and hold no
\* "/", building the path clientId/documentType/fileName and splitting it on "/" gives
\* back exactly the three components.
C14_RoundTrip ==
  ( /\ codec.pc = "split"
    /\ ValidComponent(codec.clientId)
    /\ ValidComponent(codec.documentType)
    /\ ValidComponent(codec.fileName) ) =>
    codec.parts = <<codec.clientId, codec.documentType, codec.fileName>>

\* the path a/a/a. has been built and split into its components again
C14_Witness ==
  /\ codec.pc = "split"
  /\ codec.clientId = <<"a">> /\ codec.documentType = <<"a">>
  /\ codec.fileName = <<"a", ".">>
  /\ codec.path = <<"a", "/", "a", "/", "a", ".">>
  /\ codec.parts = <<<<"a">>, <<"a">>, <<"a", ".">>>>

----------------------------------------------------------------------------
(* Properties of the access tokens *)

\* the route /public has decided about the token presented to it
Validated == token.pc \in {"serve", "done"}

\* the token presented is the one that was issued
Genuine == token.presented = token.issued

\* C15: the validation rejects every token with fewer than two parts delimited by "_",
\* rejects every token older than 30 minutes, accepts a token issued 5 minutes ago and
\* rejects one issued 31 minutes ago.
C15_Validate ==
  Validated =>
    /\ (\A i \in 1..Len(token.presented) : token.presented[i] # "_") => ~token.accepted
    /\ (Genuine /\ token.now - token.issuedAt > 1800000) => ~token.accepted
    /\ (Genuine /\ token.now - token.issuedAt = 300000) => token.accepted
    /\ (Genuine /\ token.now - token.issuedAt = 1860000) => ~token.accepted
    /\ token.accepted <=> token.status # 401

\* a token issued 31 minutes ago has been rejected
C15_Witness ==
  /\ Validated /\ Genuine
  /\ token.issuedAt = 60000 /\ token.now = 1920000
  /\ ~token.accepted /\ token.status = 401

\* C16: a token issued for one document is not accepted by the route /public for
\* another document.
C16_OneDocument ==
  (Validated /\ Genuine /\ token.accepted) => token.requested = token.issuedFor

----------------------------------------------------------------------------
(* Properties of the migration *)

\* the loop has ended and the report has been sent
Migrated == mig.pc = "done" /\ mig.status = 200

\* the entries of the batch that name no document
MalformedEntries == {i \in 1..Len(mig.documentUrls) : mig.documentUrls[i].src = <<"", "", "">>}

\* entry i is the URL of a blob filed under the tenant that the route migrates, every
\* request made for it was answered and every local write made for it succeeded
FaultFree(i) ==
  LET e == mig.documentUrls[i]
  IN /\ e.src # <<"", "", "">>
     /\ e.url[1] = "https:"
     /\ IF mig.route = "new-client" THEN e.src[1] \in {"new-client", "temp-1"}
                                    ELSE e.src[1] = mig.tempId
     /\ ~mig.trace[i].fault

\* the keys the report maps to a location
Reported == {i \in 1..Len(mig.documentUrls) : mig.updatedUrls[i].kind # "none"}

C19_Report ==
  Migrated =>
    \A i \in 1..Len(mig.documentUrls) :
      LET e == mig.documentUrls[i]
          t == mig.trace[i]
      IN i \in Reported <=>
           /\ t.fetched
           /\ t.remote = "ok" \/ t.local = "ok"
           /\ t.path = <<mig.newClientId, e.src[2], e.src[3]>>
           /\ mig.updatedUrls[i].path = t.path

\* C20: from a reference to a document of the migrated tenant, be it the URL of the blob
\* or a local path with or without the uploads directory in front, the loop extracts the
\* category and the filename the reference was written with and does not reject it.
C20_Extract ==
  LET e == mig.documentUrls[1]
  IN (/\ mig.pc \in {"entry", "fetch"}
      /\ mig.verdict # ""
      /\ mig.route = "temp" => e.src[1] = mig.tempId)
     => /\ mig.verdict = "ok"
        /\ mig.documentType = <<e.src[2]>>
        /\ mig.filename = <<e.src[3]>>

----------------------------------------------------------------------------
(* Properties of the read routes *)

\* a signed URL: it carries a permission and an expiry
Signed(url) == url.perm # ""

C23_PublicWitness == token.pc = "done" /\ Signed(token.sas) /\ token.status = 200

----------------------------------------------------------------------------
(* Properties of the stores after uploadFile *)

\* uploadFile of handler h has returned a location
PutReturned(h) == Last(h).op = "uploadFile" /\ Last(h).ok

\* generateSecureUrl of handler h, called right after an uploadFile of the same path
\* that returned, has had its existence check answered
GetAfterPut(h) ==
  Last(h).op = "generateSecureUrl" /\ Last(h).predDoc.content # "" /\ Last(h).remote = "ok"

ConcurrentPuts ==
  /\ Last("h1").op = "uploadFile" /\ Last("h2").op = "uploadFile"
  /\ Last("h1").path # Last("h2").path
  /\ \/ Last("h1").pred = "racing"
     \/ Last("h2").pred = "racing" /\ budget["h1"] = MaxRaceCalls - 1
  /\ \A h \in Handlers : ~Last(h).fault /\ Last(h).local # "fail"

\* C25: two uploadFile calls to different paths that overlap do not interfere: both
\* return a location, and under each path a store holds the content of the call made for it.
C25_DisjointPuts ==
  ConcurrentPuts =>
    \A h \in Handlers :
      (isLocalStorage \/ blobServiceClient) =>
        /\ Last(h).ok
        /\ Last(h).url.path = Last(h).path
        /\ \/ Last(h).remote = "ok" /\ blobs[Last(h).path].content = Last(h).doc.content
                                   /\ blobs[Last(h).path].ctype = Last(h).doc.ctype
           \/ Last(h).local = "ok"
                /\ files[<<"uploads", Last(h).path>>] = Last(h).doc.content

\* two overlapping uploadFile calls have stored different contents in the remote store
C25_Witness ==
  /\ ConcurrentPuts
  /\ Last("h1").remote = "ok" /\ Last("h2").remote = "ok"
  /\ Last("h1").doc # Last("h2").doc
  /\ blobs[Last("h1").path].content = Last("h1").doc.content
  /\ blobs[Last("h2").path].content = Last("h2").doc.content

\* C26: an uploadFile of a service that was constructed with a client for the remote
\* store attempts the remote write, whatever happened in the calls before it.
C26_RemoteFirst ==
  \A h \in Handlers :
    (Last(h).op = "uploadFile" /\ blobServiceClient) => Last(h).remote # "none"

\* C27: whenever uploadFile returns a location, a store holds under the path of the
\* call an object with the content that was uploaded; uploadFile returns no location
\* when the remote write and the local write both failed.
C27_StoredOnSuccess ==
  \A h \in Handlers :
    PutReturned(h) =>
      /\ \/ blobs[Last(h).path].content = Last(h).doc.content
         \/ \E d \in {"uploads", "/workspace/uploads"} :
              files[<<d, Last(h).path>>] = Last(h).doc.content
      /\ ~(Last(h).remote = "fail" /\ Last(h).local = "fail")

\* C28: generateSecureUrl returns a credential or a local reference only for the object
\* at the requested clientId/documentType/fileName, never for another stored document.
C28_RequestedOnly ==
  \A h \in Handlers :
    (Last(h).op = "generateSecureUrl" /\ Last(h).ok) => Last(h).url.path = Last(h).path

\* the two handlers have each completed a deleteFile of the same path; the calls
\* overlapped, the remote store held the object when the first of them was made, and
\* every request to the remote store was answered
ConcurrentDeletes ==
  /\ Last("h1").op = "deleteFile" /\ Last("h2").op = "deleteFile"
  /\ Last("h1").path = Last("h2").path
  /\ Last("h1").pred = "racing" \/ Last("h2").pred = "racing"
  /\ \E h \in Handlers : Last(h).heldRemote
  /\ \A h \in Handlers : ~Last(h).fault

\* C29: of two deleteFile calls for the same stored reference that overlap, neither
\* raises an error and exactly one returns true, in every interleaving.
C29_OneDeleter ==
  ConcurrentDeletes =>
    /\ Last("h1").ok /\ Last("h2").ok
    /\ Last("h1").deleted # Last("h2").deleted

\* C30: the route /public accepts a token only if its leading part is a timestamp t
\* with 0 <= now - t <= 30 minutes; a leading part that is no number and a timestamp
\* in the future are rejected.
C30_FailClosed ==
  (Validated /\ token.accepted) =>
    /\ token.presented # <<>>
    /\ \/ token.presented[1] = "0" /\ token.now <= 1800000
       \/ token.presented[1] = "60000" /\ token.now >= 60000 /\ token.now - 60000 <= 1800000

\* C30 for the tokens whose leading part is no number
C30_NotANumber ==
  (Validated /\ token.accepted) =>
    (token.presented # <<>> /\ token.presented[1] \in {"0", "60000"})

\* C30 for the tokens whose timestamp lies in the future
C30_Future ==
  (Validated /\ token.accepted /\ token.presented # <<>> /\ token.presented[1] = "60000")
    => token.now >= 60000

\* the request has been sent twice and both replies have arrived
MigratedTwice == Migrated /\ mig.first # <<>>

\* every request to the stores was answered and every local write succeeded, in the
\* first request and in the second
NoFaults ==
  \A i \in 1..Len(mig.documentUrls) : ~mig.trace[i].fault /\ ~mig.first[1].trace[i].fault

\* C21: when a migrate request is repeated with the same parameters and the same
\* documentUrls and no request to the stores fails in either, the second reply carries
\* the report of the first, and the objects under the new tenant are those the first
\* request left there.
C21_Idempotent ==
  (MigratedTwice /\ NoFaults) =>
    /\ mig.updatedUrls = mig.first[1].updatedUrls
    /\ \A p \in MigPaths :
         p[1] = mig.newClientId =>
           /\ blobs[p] = mig.first[1].blobs[p]
           /\ \A d \in LocalDirs : files[<<d, p>>] = mig.first[1].files[<<d, p>>]

\* a batch of two documents has been migrated twice into the remote store
C21_Witness ==
  /\ MigratedTwice
  /\ NoFaults
  /\ Cardinality(Reported) = 2
  /\ \A i \in Reported :
       /\ mig.trace[i].remote = "ok" /\ mig.first[1].trace[i].remote = "ok"
       /\ blobs[mig.trace[i].path].content # ""

============================================================================
